---- MODULE Spec2Model ----
(***************************************************************************)
(* Model of float_cmp.hpp: the class IEEE_754<float_type> instantiated as  *)
(* float_cmp = IEEE_754<float>.  A wrapper is its member data_, a union of *)
(* the float and the unsigned integer of the same size; the model keeps    *)
(* the 32 bits of that storage as a function from bit index (0 = least     *)
(* significant) to 0 or 1, so that the unsigned arithmetic keeps its width *)
(* and the float arithmetic is carried out on the IEEE-754 binary32        *)
(* encoding, rounding to nearest even.  Reading bit_ after float_ was      *)
(* written is the union's type punning; the compilers the header builds    *)
(* with give the bits of the float, which is what the model gives.         *)
(* double_cmp = IEEE_754<double> differs in the sizes only.                *)
(***************************************************************************)
EXTENDS Integers, Sequences, FiniteSets, TLC

VARIABLES self, rhs, op, ret, exit

vars == <<self, rhs, op, ret, exit>>

----------------------------------------------------------------------------
(* Sizes of the instantiation float_cmp = IEEE_754<float>.                 *)

\* sizeof(float): float is type_with_size<4>::t_float.
SizeofFloat == 4

\* std::numeric_limits<float>::digits.
digits == 24

bitCount == 8 * SizeofFloat

significandBitCount == digits - 1

exponentBitCount == bitCount - 1 - significandBitCount

maxUlpsDiff == 4

----------------------------------------------------------------------------
(* type_with_size<4>::t_uint: unsigned arithmetic on bitCount bits.        *)

BitIdx == 0 .. (bitCount - 1)

\* The t_uint holding the number n, for 0 <= n < 2^(bitCount - 1).
t_uint(n) == [i \in BitIdx |-> IF i < bitCount - 1 THEN (n \div (2 ^ i)) % 2 ELSE 0]

ShiftLeft(b, n) == [i \in BitIdx |-> IF i >= n THEN b[i - n] ELSE 0]

ShiftRight(b, n) == [i \in BitIdx |-> IF i + n < bitCount THEN b[i + n] ELSE 0]

BitNot(b) == [i \in BitIdx |-> 1 - b[i]]

BitOr(a, b) == [i \in BitIdx |-> IF a[i] = 1 \/ b[i] = 1 THEN 1 ELSE 0]

BitAnd(a, b) == [i \in BitIdx |-> IF a[i] = 1 /\ b[i] = 1 THEN 1 ELSE 0]

\* Half of the bits of a t_uint, the width the difference is worked out in.
HalfBits == bitCount \div 2

\* The number held in the n bits of b from bit lo upwards.
RECURSIVE Field(_, _, _)
Field(b, lo, n) ==
  IF n = 0 THEN 0 ELSE b[lo + n - 1] * (2 ^ (n - 1)) + Field(b, lo, n - 1)

\* The t_uint whose high half holds hi and whose low half holds lo.
Halves(hi, lo) ==
  [i \in BitIdx |->
     IF i < HalfBits THEN (lo \div (2 ^ i)) % 2 ELSE (hi \div (2 ^ (i - HalfBits))) % 2]

\* a - b on unsigned integers of bitCount bits: the difference modulo
\* 2^bitCount, the low half first and its borrow taken from the high half.
USub(a, b) ==
  LET lo == Field(a, 0, HalfBits) - Field(b, 0, HalfBits)
      borrow == IF lo < 0 THEN 1 ELSE 0
      hi == Field(a, HalfBits, HalfBits) - Field(b, HalfBits, HalfBits) - borrow
  IN Halves((hi + 2 ^ HalfBits) % (2 ^ HalfBits), (lo + 2 ^ HalfBits) % (2 ^ HalfBits))

\* a <= b on unsigned integers.
ULessEq(a, b) ==
  \/ a = b
  \/ \E i \in BitIdx : /\ a[i] < b[i]
                       /\ \A j \in BitIdx : j > i => a[j] = b[j]

----------------------------------------------------------------------------
(* The float arithmetic the code uses, on the binary32 encoding.           *)

FSign(b) == b[bitCount - 1]

FExp(b) == Field(b, significandBitCount, exponentBitCount)

FFrac(b) == Field(b, 0, significandBitCount)

ExpMax == (2 ^ exponentBitCount) - 1

Hidden == 2 ^ significandBitCount

\* The float with sign s, exponent field e and significand field f.
Pack(s, e, f) ==
  [i \in BitIdx |->
     IF i < significandBitCount THEN (f \div (2 ^ i)) % 2
     ELSE IF i < bitCount - 1 THEN (e \div (2 ^ (i - significandBitCount))) % 2
     ELSE s]

FIsNaN(b) == FExp(b) = ExpMax /\ FFrac(b) # 0

FIsInf(b) == FExp(b) = ExpMax /\ FFrac(b) = 0

\* Magnitude of a float as the integer its low bitCount - 1 bits hold;
\* floats of one sign are ordered as their magnitudes are.
FMag(b) == FExp(b) * Hidden + FFrac(b)

\* A finite float is FMant * 2^(FScale - bias - significandBitCount).
FMant(b) == IF FExp(b) = 0 THEN FFrac(b) ELSE Hidden + FFrac(b)

FScale(b) == IF FExp(b) = 0 THEN 1 ELSE FExp(b)

\* m shifted right by d bits, the bits shifted out kept as a sticky low bit.
ShiftSticky(m, d) ==
  IF d > digits + 3 THEN (IF m = 0 THEN 0 ELSE 1)
  ELSE LET q == m \div (2 ^ d)
           lost == m % (2 ^ d)
       IN IF lost # 0 /\ q % 2 = 0 THEN q + 1 ELSE q

\* r (a significand with three extra low bits) at scale e, shifted left until
\* its leading bit is in place or the scale is the least one.
RECURSIVE Normalize(_, _)
Normalize(r, e) ==
  IF r < 8 * Hidden /\ e > 1 /\ r # 0 THEN Normalize(2 * r, e - 1) ELSE <<r, e>>

\* The float of sign s nearest to r/8 * 2^(e - bias - significandBitCount),
\* ties to the even significand.
RoundPack(s, r, e) ==
  LET q0 == r \div 8
      rem == r % 8
      q == IF rem > 4 \/ (rem = 4 /\ q0 % 2 = 1) THEN q0 + 1 ELSE q0
      q1 == IF q = 2 * Hidden THEN Hidden ELSE q
      e1 == IF q = 2 * Hidden THEN e + 1 ELSE e
  IN IF e1 >= ExpMax THEN Pack(s, ExpMax, 0)
     ELSE IF q1 < Hidden THEN Pack(s, 0, q1)
     ELSE Pack(s, e1, q1 - Hidden)

\* The sum of the finite floats of signs sa, sb and magnitudes a, b.
FAddFinite(sa, a, sb, b) ==
  LET aBig == FMag(a) >= FMag(b)
      x == IF aBig THEN a ELSE b
      y == IF aBig THEN b ELSE a
      sx == IF aBig THEN sa ELSE sb
      X == 8 * FMant(x)
      Y == ShiftSticky(8 * FMant(y), FScale(x) - FScale(y))
  IN IF sa = sb
       THEN LET r == X + Y
            IN IF r >= 16 * Hidden
                 THEN RoundPack(sx, ShiftSticky(r, 1), FScale(x) + 1)
                 ELSE RoundPack(sx, r, FScale(x))
       ELSE IF X = Y THEN Pack(0, 0, 0)
       ELSE LET n == Normalize(X - Y, FScale(x))
            IN RoundPack(sx, n[1], n[2])

\* -v: the sign bit flipped.
FNeg(v) == [v EXCEPT ![bitCount - 1] = 1 - v[bitCount - 1]]

\* a - b in float arithmetic.
FSub(a, b) ==
  IF FIsNaN(a) \/ FIsNaN(b) THEN Pack(0, ExpMax, Hidden \div 2)
  ELSE IF FIsInf(a)
    THEN IF FIsInf(b) /\ FSign(a) = FSign(b) THEN Pack(1, ExpMax, Hidden \div 2) ELSE a
  ELSE IF FIsInf(b) THEN FNeg(b)
  ELSE FAddFinite(FSign(a), a, 1 - FSign(b), b)

\* a <= b in float arithmetic: false when either is a NaN, and -0 equals +0.
FLessEq(a, b) ==
  /\ ~FIsNaN(a)
  /\ ~FIsNaN(b)
  /\ IF FSign(a) = 1
       THEN IF FSign(b) = 1 THEN FMag(a) >= FMag(b) ELSE TRUE
       ELSE IF FSign(b) = 1 THEN FMag(a) = 0 /\ FMag(b) = 0 ELSE FMag(a) <= FMag(b)

\* a >= b in float arithmetic.
FGreaterEq(a, b) == FLessEq(b, a)

----------------------------------------------------------------------------
(* The constants of IEEE_754<float>.                                       *)

signBitMask == ShiftLeft(t_uint(1), bitCount - 1)

significandBitMask == ShiftRight(BitNot(t_uint(0)), exponentBitCount + 1)

exponentBitMask == BitNot(BitOr(signBitMask, significandBitMask))

\* std::numeric_limits<float>::epsilon(): 2^(1 - digits).
maxDiff == Pack(0, ((2 ^ (exponentBitCount - 1)) - 1) - (digits - 1), 0)

----------------------------------------------------------------------------
(* The methods of IEEE_754<float>; a wrapper is given by its data_.        *)

\* IEEE_754(float_type const& f): data_ holds f as it is.
IEEE_754(f) == f

\* absolute_value without the negation of a negative value.
absolute_value_identity(v) == v

absolute_value(v) == IF FGreaterEq(v, Pack(0, 0, 0)) THEN v ELSE FNeg(v)

exponent_bits(d) == BitAnd(exponentBitMask, d)

significand_bits(d) == BitAnd(significandBitMask, d)

sign_bit(d) == BitAnd(signBitMask, d)

float_data(d) == d

bit_data(d) == d

\* is_nan without the test of the significand.
is_nan_exponent_only(d) == exponent_bits(d) = exponentBitMask

is_nan(d) == (exponent_bits(d) = exponentBitMask) /\ (significand_bits(d) # t_uint(0))

float_close(lhs, r) == FLessEq(absolute_value(FSub(lhs, r)), maxDiff)

\* ulp_close taking the difference in whichever order does not wrap.
ulp_close_either_order(lhs, r) ==
  \/ ULessEq(USub(lhs, r), t_uint(maxUlpsDiff))
  \/ ULessEq(USub(r, lhs), t_uint(maxUlpsDiff))

ulp_close(lhs, r) == ULessEq(USub(lhs, r), t_uint(maxUlpsDiff))

\* almost_equal without the test for NaN.
almost_equal_exit_no_nan(d, r) ==
  IF float_close(float_data(d), float_data(r)) THEN "close"
  ELSE IF sign_bit(d) # sign_bit(r) THEN "sign"
  ELSE "ulp"

\* almost_equal with the test of the signs written == for !=.
almost_equal_exit_sign_inverted(d, r) ==
  IF is_nan(d) \/ is_nan(r) THEN "nan"
  ELSE IF float_close(float_data(d), float_data(r)) THEN "close"
  ELSE IF sign_bit(d) = sign_bit(r) THEN "sign"
  ELSE "ulp"

\* almost_equal with the test of the signs before the absolute test.
almost_equal_exit_sign_first(d, r) ==
  IF is_nan(d) \/ is_nan(r) THEN "nan"
  ELSE IF sign_bit(d) # sign_bit(r) THEN "sign"
  ELSE IF float_close(float_data(d), float_data(r)) THEN "close"
  ELSE "ulp"

\* The return statement almost_equal leaves by: "nan" (return false),
\* "close" (return true), "sign" (return false) or "ulp" (return ulp_close).
almost_equal_exit(d, r) ==
  IF is_nan(d) \/ is_nan(r) THEN "nan"
  ELSE IF float_close(float_data(d), float_data(r)) THEN "close"
  ELSE IF sign_bit(d) # sign_bit(r) THEN "sign"
  ELSE "ulp"

almost_equal(d, r) ==
  LET e == almost_equal_exit(d, r)
  IN IF e = "nan" THEN FALSE
     ELSE IF e = "close" THEN TRUE
     ELSE IF e = "sign" THEN FALSE
     ELSE ulp_close(bit_data(d), bit_data(r))

----------------------------------------------------------------------------
(* The floats the wrappers are constructed from.                           *)

\* Number of representable steps taken above 1.0.
MaxStep == 6

AllOnes == Hidden - 1

Bias == (2 ^ (exponentBitCount - 1)) - 1

Zeros == {Pack(0, 0, 0), Pack(1, 0, 0)}

\* The least subnormals and the least normal float.
Subnormals == {Pack(0, 0, 1), Pack(1, 0, 1), Pack(0, 1, 0)}

\* Around epsilon: 2^-47, epsilon/2, epsilon and their neighbours.
NearEpsilon ==
  {Pack(0, Bias - 2 * digits + 1, 0), Pack(0, Bias - digits, 0), Pack(1, Bias - digits, 0),
   Pack(0, Bias - digits, 1), Pack(0, Bias - digits + 1, 0), Pack(1, Bias - digits + 1, 0),
   Pack(0, Bias - digits + 1, 1)}

\* 1.0 and the floats up to MaxStep steps above it, the float below it, and
\* -1.0 and the float maxUlpsDiff steps below it.
NearOne ==
  {Pack(0, Bias, k) : k \in 0 .. MaxStep}
    \cup {Pack(1, Bias, 0), Pack(1, Bias, maxUlpsDiff), Pack(0, Bias - 1, AllOnes)}

\* 2^24 (where one step is 2.0) and the floats around it.
NearBig ==
  {Pack(0, Bias + digits, 0), Pack(0, Bias + digits, 1), Pack(0, Bias + digits - 1, AllOnes),
   Pack(1, Bias + digits, 0)}

\* The largest finite floats and the infinities.
NearInfinity ==
  {Pack(0, ExpMax - 1, AllOnes), Pack(0, ExpMax - 1, AllOnes + 1 - maxUlpsDiff),
   Pack(0, ExpMax - 1, AllOnes - maxUlpsDiff), Pack(1, ExpMax - 1, AllOnes),
   Pack(0, ExpMax, 0), Pack(1, ExpMax, 0)}

NaNs == {Pack(0, ExpMax, 1), Pack(1, ExpMax, AllOnes), Pack(0, ExpMax, Hidden \div 2)}

Floats == Zeros \cup Subnormals \cup NearEpsilon \cup NearOne \cup NearBig \cup NearInfinity \cup NaNs

\* The floats a caller stores through the reference operator float_type&() returns.
Stored == {Pack(0, Bias + 1, 0), Pack(1, Bias, 1)}

Who == {"self", "rhs"}

----------------------------------------------------------------------------
(* The state: two wrappers, self and rhs, the last operation called (on    *)
(* self, with rhs as its argument where it takes one) and what it returned.*)

Init ==
  /\ \E f \in Floats : self = IEEE_754(f)
  /\ \E f \in Floats : rhs = IEEE_754(f)
  /\ op = "IEEE_754"
  /\ ret = FALSE
  /\ exit = "none"

Call(name, value) ==
  /\ op' = name
  /\ ret' = value
  /\ exit' = "none"
  /\ UNCHANGED <<self, rhs>>

\* A call that ends in almost_equal(d, r).
Compare(name, d, r) ==
  /\ op' = name
  /\ ret' = almost_equal(d, r)
  /\ exit' = almost_equal_exit(d, r)
  /\ UNCHANGED <<self, rhs>>

\* IEEE_754(IEEE_754 const&& rhs): a new wrapper made from rhs.
CopyConstruct == Call("copy", IEEE_754(float_data(rhs)))

\* explicit operator float_type const&() const
ConvertConst == Call("float_const_ref", self)

\* explicit operator float_type&() on wrapper w, and the caller assigning f
\* through the reference it returns.
ConvertStore(w, f) ==
  /\ op' = "float_ref"
  /\ ret' = f
  /\ exit' = "none"
  /\ self' = IF w = "self" THEN f ELSE self
  /\ rhs' = IF w = "rhs" THEN f ELSE rhs

ExponentBits == Call("exponent_bits", exponent_bits(self))

SignificandBits == Call("significand_bits", significand_bits(self))

SignBit == Call("sign_bit", sign_bit(self))

FloatData == Call("float_data", float_data(self))

BitData == Call("bit_data", bit_data(self))

IsNan == Call("is_nan", is_nan(self))

\* self.float_close(lhs, rhs) on the floats of the two wrappers.
FloatClose == Call("float_close", float_close(float_data(self), float_data(rhs)))

\* self.ulp_close(lhs, rhs) on the bits of the two wrappers.
UlpClose == Call("ulp_close", ulp_close(bit_data(self), bit_data(rhs)))

\* self.almost_equal(rhs)
AlmostEqual == Compare("almost_equal", self, rhs)

\* bool operator==(IEEE_754 const&& rhs) const: self == rhs
OperatorEq == Compare("operator_eq", self, rhs)

\* bool operator==(float_type const&& rhs) const: self == float of rhs, which
\* makes a wrapper of the float
OperatorEqFloat == Compare("operator_eq_float", self, IEEE_754(float_data(rhs)))

\* bool operator==(float_type const&& lhs, IEEE_754 const&& rhs): float of
\* self == rhs, which is rhs == lhs with the operands changing places
FreeOperatorEq == Compare("free_operator_eq", rhs, IEEE_754(float_data(self)))

Next ==
  \/ CopyConstruct
  \/ ConvertConst
  \/ \E w \in Who : \E f \in Stored : ConvertStore(w, f)
  \/ ExponentBits
  \/ SignificandBits
  \/ SignBit
  \/ FloatData
  \/ BitData
  \/ IsNan
  \/ FloatClose
  \/ UlpClose
  \/ AlmostEqual
  \/ OperatorEq
  \/ OperatorEqFloat
  \/ FreeOperatorEq

Spec == Init /\ [][Next]_vars

----------------------------------------------------------------------------
(* What the properties are stated with: IEEE-754 notions of a bit pattern, *)
(* read off the encoding and not through the methods of the class.         *)

Comparisons == {"almost_equal", "operator_eq", "operator_eq_float", "free_operator_eq"}

Finite(b) == FExp(b) # ExpMax

\* Machine epsilon of float: 2^-(digits - 1).
Epsilon == Pack(0, Bias - significandBitCount, 0)

\* |v|: the sign bit cleared.
FAbs(v) == [v EXCEPT ![bitCount - 1] = 0]

\* |a - b| <= epsilon, the difference being the float a - b.
WithinEpsilon(a, b) == FLessEq(FAbs(FSub(a, b)), Epsilon)

\* The largest magnitude: all bitCount - 1 low bits set.
MagMax == ExpMax * Hidden + AllOnes

\* Bit pattern a is bit pattern b plus k, modulo 2^bitCount.
IsSumModulo(a, b, k) ==
  IF FMag(b) > MagMax - k
    THEN FSign(a) = 1 - FSign(b) /\ FMag(a) = FMag(b) - MagMax - 1 + k
    ELSE FSign(a) = FSign(b) /\ FMag(a) = FMag(b) + k

\* The distance between two bit patterns of one sign.
BitDistance(a, b) == IF FMag(a) >= FMag(b) THEN FMag(a) - FMag(b) ELSE FMag(b) - FMag(a)

----------------------------------------------------------------------------

\* C1: almost_equal is symmetric on finite values: self.almost_equal(rhs)
\* returns what rhs.almost_equal(self) returns.
C1_Symmetric ==
  (op = "almost_equal" /\ Finite(self) /\ Finite(rhs)) => ret = almost_equal(rhs, self)

\* C2: two values of one sign, neither a NaN, whose bit patterns differ by
\* exactly maxUlpsDiff compare equal; when they differ by more and the
\* absolute test does not hold, they compare unequal.
C2_UlpBoundary ==
  (op = "almost_equal" /\ ~FIsNaN(self) /\ ~FIsNaN(rhs) /\ FSign(self) = FSign(rhs)) =>
     /\ BitDistance(self, rhs) = maxUlpsDiff => ret = TRUE
     /\ (BitDistance(self, rhs) > maxUlpsDiff /\ ~WithinEpsilon(self, rhs)) => ret = FALSE

\* C3: a NaN is equal to nothing: when either operand is a NaN, whatever its
\* sign and significand, almost_equal and every operator== return false, in
\* either order of the operands and also for a NaN against itself.
C3_NaNNeverEqual ==
  (op \in Comparisons /\ (FIsNaN(self) \/ FIsNaN(rhs))) => ret = FALSE

C3_Witness ==
  /\ op = "free_operator_eq"
  /\ FIsNaN(self)
  /\ FSign(self) = 1
  /\ rhs = self
  /\ ret = FALSE

\* C4: every value that is not a NaN is almost equal to itself, the
\* infinities too, for which the absolute test fails because their
\* difference is not zero.
C4_Reflexive ==
  /\ (op = "almost_equal" /\ self = rhs /\ ~FIsNaN(self)) => ret = TRUE
  /\ (op = "float_close" /\ self = rhs /\ FIsInf(self)) => ret = FALSE

C4_Witness ==
  /\ op = "almost_equal"
  /\ self = rhs
  /\ FIsInf(self)
  /\ exit = "ulp"
  /\ ret = TRUE

\* C5: operands of different sign, neither a NaN, whose difference (the float
\* self - rhs, in magnitude) is above epsilon are unequal, and almost_equal
\* leaves at the test of the signs; so x and -x are unequal when |x| is above
\* epsilon.
C5_OppositeSigns ==
  (op = "almost_equal" /\ ~FIsNaN(self) /\ ~FIsNaN(rhs) /\ FSign(self) # FSign(rhs)) =>
     /\ ~WithinEpsilon(self, rhs) => (ret = FALSE /\ exit = "sign")
     /\ (FMag(self) = FMag(rhs) /\ FMag(self) > FMag(Epsilon)) => ret = FALSE

C5_Witness ==
  /\ op = "almost_equal"
  /\ FSign(self) = 1
  /\ FSign(rhs) = 0
  /\ FMag(self) = FMag(rhs)
  /\ FMag(self) > FMag(Epsilon)
  /\ Finite(self)
  /\ exit = "sign"
  /\ ret = FALSE

\* C6: operands, neither a NaN, whose difference is within epsilon are equal
\* whatever their signs; so every x with |x| <= epsilon equals 0.0, and 0.0
\* equals -0.0.
C6_AbsoluteFirst ==
  (op = "almost_equal" /\ ~FIsNaN(self) /\ ~FIsNaN(rhs)) =>
     /\ WithinEpsilon(self, rhs) => ret = TRUE
     /\ (FMag(self) <= FMag(Epsilon) /\ rhs = Pack(0, 0, 0)) => ret = TRUE
     /\ (FMag(self) = 0 /\ FMag(rhs) = 0) => ret = TRUE

C6_Witness ==
  /\ op = "almost_equal"
  /\ FSign(self) # FSign(rhs)
  /\ FMag(self) > Hidden
  /\ FMag(rhs) > Hidden
  /\ exit = "close"
  /\ ret = TRUE

\* C7: is_nan() holds exactly when all exponent bits are one and some
\* significand bit is one, whatever the sign bit.
C7_IsNan ==
  op = "is_nan" =>
    ret = (/\ \A i \in significandBitCount .. (bitCount - 2) : self[i] = 1
           /\ \E i \in 0 .. (significandBitCount - 1) : self[i] = 1)

C7_Witness ==
  /\ op = "is_nan"
  /\ FIsInf(self)
  /\ FSign(self) = 1
  /\ ret = FALSE

\* C8: no operation changes the bit pattern a wrapper was constructed with.
C8_Immutable == [][self' = self /\ rhs' = rhs]_vars

\* C9: ulp_close(a, b) holds exactly when a is b plus at most maxUlpsDiff
\* modulo 2^bitCount; and almost_equal reaches it exactly when neither operand
\* is a NaN, the signs agree and the difference is not within epsilon, and
\* then returns true exactly when the bits of self are those of rhs or up to
\* maxUlpsDiff above them.
C9_UlpFixedOrder ==
  /\ op = "ulp_close" => ret = (\E k \in 0 .. maxUlpsDiff : IsSumModulo(self, rhs, k))
  /\ op = "almost_equal" =>
       /\ exit = "ulp" <=> (/\ ~FIsNaN(self)
                            /\ ~FIsNaN(rhs)
                            /\ FSign(self) = FSign(rhs)
                            /\ ~WithinEpsilon(self, rhs))
       /\ exit = "ulp" =>
            ret = (FMag(self) >= FMag(rhs) /\ FMag(self) - FMag(rhs) <= maxUlpsDiff)

C9_Witness ==
  /\ op = "almost_equal"
  /\ exit = "ulp"
  /\ FMag(rhs) = FMag(self) + 1
  /\ ret = FALSE

\* C10: an infinity is never almost equal to a finite value, in either order
\* of the operands.
C10_InfinityNotFinite ==
  (op = "almost_equal" /\ ((FIsInf(self) /\ Finite(rhs)) \/ (Finite(self) /\ FIsInf(rhs)))) =>
     ret = FALSE

====
